---- MODULE Spec2Model ----
(***************************************************************************)
(* A model of repors: the worker pool of src/execution.rs (create and      *)
(* execute, with the worker run loop) and the placement tree of            *)
(* src/tree.rs (Location::recognize, LayerTree::add, LayerTree::consume).  *)
(*                                                                         *)
(* Paths are sequences of components; the staged temp path of a job is the *)
(* index of its spec in the manifest (a fresh uuid directory per job).     *)
(***************************************************************************)
EXTENDS Integers, Sequences, FiniteSets, TLC

\* ------------------------------------------------------------------ bounds

\* The largest worker count handed to WorkerPool::create.
MaxWorkers == 2

\* The largest number of sources of a manifest.
MaxSpecs == 2

\* The largest number of LayerTree::add calls of the tree specification.
MaxAdds == 4

\* The destinations a manifest of the pool specification draws from
\* (relative paths: a, a/b, c).
PoolPaths == {<<1>>, <<1, 1>>, <<2>>}

\* The final paths the tree specification draws from: a chain of four, two
\* siblings under its third element, and unrelated paths.
TreePaths ==
  {<<1>>, <<1, 1>>, <<1, 1, 1>>, <<1, 1, 1, 1>>, <<1, 1, 1, 2>>, <<2>>, <<2, 1>>}

\* The destination root handed to WorkerPool::create.
DestRoot == <<0>>

VARIABLES
  amount,       \* create's `amount`: the requested worker count
  manifest,     \* manifest.sources: the destination of each source
  pc,           \* the coordinating thread's position in create / execute
  ret,          \* what create / execute returned ("none" while running)
  workers,      \* self.workers: the identities registered in the HashMap
  handles,      \* TRUE while the WorkerHandles (the job senders) are alive
  visited,      \* the workers a `for ... in &self.workers` loop has visited
  wpc,          \* each worker thread's position
  wjob,         \* the source a worker is running (0: none)
  jobq,         \* each worker's job channel
  events,       \* the event channel (Online / Idle)
  eventsOpen,   \* TRUE while the event receiver is alive
  eventSender,  \* TRUE while create's own event_sender is alive
  results,      \* the result channel
  resultsOpen,  \* TRUE while the result receiver is alive
  resultSender, \* TRUE while execute's own result_sender is alive
  jobs,         \* the drain iterator: the sources not yet handed out
  finished,     \* execute's `finished` list
  failed,       \* execute's `failed` flag
  layer_tree,   \* LayerTree.locations
  order,        \* the part of consume's output not yet placed
  placed,       \* the final paths renamed into place so far (the filesystem)
  dispatched,   \* history: the Cloner jobs sent, as <<source, worker>>
  outcome,      \* history: per source, the outcome its job enqueued
  received,     \* history: the sources whose outcome the drain received, in order
  terminated,   \* history: the workers a Terminate was sent to
  joined,       \* history: the workers whose thread was joined
  inputs,       \* tree specification: the (path, temp) pairs still to add
  added,        \* tree specification: the pairs added so far
  out           \* tree specification: consume's output

vars ==
  <<amount, manifest, pc, ret, workers, handles, visited, wpc, wjob, jobq,
    events, eventsOpen, eventSender, results, resultsOpen, resultSender,
    jobs, finished, failed, layer_tree, order, placed, dispatched, outcome,
    received, terminated, joined, inputs, added, out>>

poolVars ==
  <<amount, manifest, pc, ret, workers, handles, visited, wpc, wjob, jobq,
    events, eventsOpen, eventSender, results, resultsOpen, resultSender,
    jobs, finished, failed, placed, dispatched, outcome, received,
    terminated, joined>>

treeVars == <<inputs, added, out>>

\* ------------------------------------------------------------ sequences

Last(s) == s[Len(s)]

Front(s) == SubSeq(s, 1, Len(s) - 1)

RECURSIVE SeqsUpTo(_, _)
\* The sequences over S of length at most n.
SeqsUpTo(S, n) ==
  IF n = 0 THEN {<<>>}
  ELSE LET shorter == SeqsUpTo(S, n - 1)
       IN shorter \cup {Append(s, x) : s \in {t \in shorter : Len(t) = n - 1}, x \in S}

\* -------------------------------------------------------------- paths

\* Path::ancestors: the path itself, then each of its parents, down to the
\* empty path.
Ancestors(p) == {SubSeq(p, 1, i) : i \in 0..Len(p)}

\* b is a strict filesystem descendant of a.
StrictDescendant(b, a) == Len(a) < Len(b) /\ SubSeq(b, 1, Len(a)) = a

\* dp.push(&source.destination) for a relative destination.
SourcePath(dp, destination) == dp \o destination

\* ------------------------------------------------------------ tree.rs

\* Location::root
LocRoot(root, temp) == [root |-> root, temp |-> temp, children |-> <<>>]

RECURSIVE Recognize(_, _, _)
RECURSIVE RecognizeChildren(_, _, _, _)

\* The `for child in self.children.iter_mut()` loop of Location::recognize
\* from child i on: the first child that claims the path ends the search
\* (the `?` on its None).
RecognizeChildren(children, i, other, temp) ==
  IF i > Len(children) THEN [none |-> FALSE, children |-> children]
  ELSE LET r == Recognize(children[i], other, temp)
       IN IF r.none
          THEN [none |-> TRUE, children |-> [children EXCEPT ![i] = r.loc]]
          ELSE RecognizeChildren(children, i + 1, other, temp)

\* recognize with the test of the path's ancestors narrowed to its parent
\* (`other.parent() == Some(&self.root)`).
RecognizeParentOnly(loc, other, temp) ==
  LET c == RecognizeChildren(loc.children, 1, other, temp)
  IN IF c.none THEN [none |-> TRUE, loc |-> [loc EXCEPT !.children = c.children]]
     ELSE IF other # <<>> /\ loc.root = Front(other)
     THEN [none |-> TRUE,
           loc |-> [loc EXCEPT !.children = Append(@, LocRoot(other, temp))]]
     ELSE [none |-> FALSE, loc |-> loc]

\* recognize testing the node itself before it offers the path to its
\* children (the two loops of the method swapped).
RecognizeSelfFirst(loc, other, temp) ==
  IF loc.root \in Ancestors(other)
  THEN [none |-> TRUE,
        loc |-> [loc EXCEPT !.children = Append(@, LocRoot(other, temp))]]
  ELSE LET c == RecognizeChildren(loc.children, 1, other, temp)
       IN IF c.none
          THEN [none |-> TRUE, loc |-> [loc EXCEPT !.children = c.children]]
          ELSE [none |-> FALSE, loc |-> loc]

\* recognize pushing the new child before it has tested the path's
\* ancestors, and returning Some(other) when the test fails.
RecognizePushFirst(loc, other, temp) ==
  LET c == RecognizeChildren(loc.children, 1, other, temp)
  IN IF c.none THEN [none |-> TRUE, loc |-> [loc EXCEPT !.children = c.children]]
     ELSE [none |-> loc.root \in Ancestors(other),
           loc |-> [loc EXCEPT !.children = Append(@, LocRoot(other, temp))]]

\* recognize putting the new child in front of the node's children
\* (`insert(0, ..)`) instead of behind them (`push`).
RecognizeInsertFront(loc, other, temp) ==
  LET c == RecognizeChildren(loc.children, 1, other, temp)
  IN IF c.none THEN [none |-> TRUE, loc |-> [loc EXCEPT !.children = c.children]]
     ELSE IF loc.root \in Ancestors(other)
     THEN [none |-> TRUE,
           loc |-> [loc EXCEPT !.children = <<LocRoot(other, temp)>> \o @]]
     ELSE [none |-> FALSE, loc |-> loc]

\* Location::recognize: `none` is TRUE when it returns None (the path was
\* taken in), and `loc` is the node afterwards.
Recognize(loc, other, temp) ==
  LET c == RecognizeChildren(loc.children, 1, other, temp)
  IN IF c.none THEN [none |-> TRUE, loc |-> [loc EXCEPT !.children = c.children]]
     ELSE IF loc.root \in Ancestors(other)
     THEN [none |-> TRUE,
           loc |-> [loc EXCEPT !.children = Append(@, LocRoot(other, temp))]]
     ELSE [none |-> FALSE, loc |-> loc]

\* add moving the roots that lie below an unclaimed path under the new root
\* it makes for that path.
AddAdopt(locations, path, temp) ==
  IF locations = <<>> THEN <<LocRoot(path, temp)>>
  ELSE LET r == RecognizeChildren(locations, 1, path, temp)
           below(l) == StrictDescendant(l.root, path)
           above(l) == ~StrictDescendant(l.root, path)
       IN IF r.none THEN r.children
          ELSE Append(SelectSeq(locations, above),
                      [root |-> path, temp |-> temp,
                       children |-> SelectSeq(locations, below)])

\* add with a path no node claims put in front of the roots (insert(0, ..))
\* instead of behind them (push).
AddRootFirst(locations, path, temp) ==
  IF locations = <<>> THEN <<LocRoot(path, temp)>>
  ELSE LET r == RecognizeChildren(locations, 1, path, temp)
       IN IF r.none THEN r.children
          ELSE <<LocRoot(path, temp)>> \o locations

\* LayerTree::add
Add(locations, path, temp) ==
  IF locations = <<>> THEN <<LocRoot(path, temp)>>
  ELSE LET r == RecognizeChildren(locations, 1, path, temp)
       IN IF r.none THEN r.children
          ELSE Append(locations, LocRoot(path, temp))

RECURSIVE ConsumeLoopChildrenReversed(_, _)
\* consume's loop pushing a node's children in reverse
\* (`children.drain(0..).rev()`).
ConsumeLoopChildrenReversed(queue, acc) ==
  IF queue = <<>> THEN acc
  ELSE LET current == Last(queue)
           rest == Front(queue)
           n == Len(current.children)
       IN IF current.children = <<>>
          THEN ConsumeLoopChildrenReversed(
                 rest, Append(acc, <<current.root, current.temp>>))
          ELSE ConsumeLoopChildrenReversed(
                 (rest \o [i \in 1..n |-> current.children[n + 1 - i]])
                   \o <<[current EXCEPT !.children = <<>>]>>,
                 acc)

RECURSIVE ConsumeLoopDropParent(_, _)
\* consume's loop without the `queue.push(current)` that puts a node back
\* once its children were moved to the queue.
ConsumeLoopDropParent(queue, acc) ==
  IF queue = <<>> THEN acc
  ELSE LET current == Last(queue)
           rest == Front(queue)
       IN IF current.children = <<>>
          THEN ConsumeLoopDropParent(rest, Append(acc, <<current.root, current.temp>>))
          ELSE ConsumeLoopDropParent(rest \o current.children, acc)

RECURSIVE ConsumeLoopFifo(_, _)
\* consume's loop taking the queue's first element (remove(0)) instead of
\* its last (pop()).
ConsumeLoopFifo(queue, acc) ==
  IF queue = <<>> THEN acc
  ELSE LET current == Head(queue)
           rest == Tail(queue)
       IN IF current.children = <<>>
          THEN ConsumeLoopFifo(rest, Append(acc, <<current.root, current.temp>>))
          ELSE ConsumeLoopFifo(
                 (rest \o current.children) \o <<[current EXCEPT !.children = <<>>]>>,
                 acc)

RECURSIVE ConsumeLoop(_, _)
\* The `while !queue.is_empty()` loop of LayerTree::consume.
ConsumeLoop(queue, acc) ==
  IF queue = <<>> THEN acc
  ELSE LET current == Last(queue)
           rest == Front(queue)
       IN IF current.children = <<>>
          THEN ConsumeLoop(rest, Append(acc, <<current.root, current.temp>>))
          ELSE ConsumeLoop(
                 (rest \o current.children) \o <<[current EXCEPT !.children = <<>>]>>,
                 acc)

\* The sequence s back to front.
Reverse(s) == [i \in 1..Len(s) |-> s[Len(s) + 1 - i]]

\* consume starting from the roots in reverse (`locations.reverse()` before
\* the loop).
ConsumeRootsReversed(locations) == ConsumeLoop(Reverse(locations), <<>>)

\* LayerTree::consume
Consume(locations) == ConsumeLoop(locations, <<>>)

\* -------------------------------------------------------- execution.rs

Cloner(k) == [job |-> "Cloner", source |-> k]

Terminate == [job |-> "Terminate", source |-> 0]

\* A worker thread that holds the clone of the result sender its Cloner job
\* carried: from taking the job to the end of that loop iteration.
HoldsSender(w) == wpc[w] \in {"run", "sent", "idle"}

\* Some sender of the result channel is alive: execute's own, one queued in
\* a Cloner job, or one held by a worker.
ResultSendersAlive ==
  \/ resultSender
  \/ \E w \in 1..MaxWorkers :
       HoldsSender(w) \/ \E i \in 1..Len(jobq[w]) : jobq[w][i].job = "Cloner"

\* Some sender of the event channel is alive: create's own, or the clone a
\* running worker thread owns.
EventSendersAlive ==
  eventSender \/ \E w \in 1..MaxWorkers : wpc[w] \notin {"unspawned", "dead"}

\* handle.jobs.send(m): the message is queued unless the worker's receiver
\* is gone (the send then fails, and the error is ignored).
SendJob(q, w, m) ==
  IF wpc[w] = "dead" THEN q ELSE [q EXCEPT ![w] = Append(@, m)]

\* std::fs::rename onto an existing directory fails when that directory is
\* not empty: when a destination was already placed at or below it.
Occupied(dest) ==
  \E i \in 1..Len(placed) : placed[i] = dest \/ StrictDescendant(placed[i], dest)

\* `WorkerPool::create(amount, destination)` is about to run, and the
\* manifest that will be executed, one of `manifests`, is parsed.
PoolInit(manifests) ==
  /\ amount \in 0..MaxWorkers
  /\ manifest \in manifests
  /\ pc = "create"
  /\ ret = "none"
  /\ workers = {}
  /\ handles = FALSE
  /\ visited = {}
  /\ wpc = [w \in 1..MaxWorkers |-> "unspawned"]
  /\ wjob = [w \in 1..MaxWorkers |-> 0]
  /\ jobq = [w \in 1..MaxWorkers |-> <<>>]
  /\ events = <<>>
  /\ eventsOpen = FALSE
  /\ eventSender = FALSE
  /\ results = <<>>
  /\ resultsOpen = FALSE
  /\ resultSender = FALSE
  /\ jobs = <<>>
  /\ finished = <<>>
  /\ failed = FALSE
  /\ layer_tree = <<>>
  /\ order = <<>>
  /\ placed = <<>>
  /\ dispatched = <<>>
  /\ outcome = [k \in 1..Len(manifest) |-> "none"]
  /\ received = <<>>
  /\ terminated = {}
  /\ joined = {}
  /\ inputs = <<>>
  /\ added = <<>>
  /\ out = <<>>

\* Init: any worker count and any manifest within the bounds.
Init == PoolInit(SeqsUpTo(PoolPaths, MaxSpecs))

\* A return of create (with an error) or of execute: the pool is dropped,
\* and with it the job senders and both receivers.
Return(r) ==
  /\ ret' = r
  /\ pc' = "returned"
  /\ handles' = FALSE
  /\ eventsOpen' = FALSE
  /\ eventSender' = FALSE
  /\ events' = <<>>
  /\ resultsOpen' = FALSE
  /\ resultSender' = FALSE
  /\ results' = <<>>

\* create, up to the spawn loop: the event channel, and create_dir_all of
\* the destination, which may fail.
CreateDirs ==
  /\ pc = "create"
  /\ \/ /\ pc' = "spawn"
        /\ eventsOpen' = TRUE
        /\ eventSender' = TRUE
        /\ handles' = TRUE
        /\ UNCHANGED <<ret, events, results, resultsOpen, resultSender>>
     \/ Return("err_create")
  /\ UNCHANGED <<amount, manifest, workers, visited, wpc, wjob, jobq, jobs,
                 finished, failed, layer_tree, order, placed, dispatched,
                 outcome, received, terminated, joined>>
  /\ UNCHANGED treeVars

\* One iteration of create's loop, first half: std::thread::spawn.
Spawn ==
  /\ pc = "spawn"
  /\ Cardinality(workers) < amount
  /\ wpc' = [wpc EXCEPT ![Cardinality(workers) + 1] = "start"]
  /\ pc' = "register"
  /\ UNCHANGED <<amount, manifest, ret, workers, handles, visited, wjob, jobq,
                 events, eventsOpen, eventSender, results, resultsOpen,
                 resultSender, jobs, finished, failed, layer_tree, order,
                 placed, dispatched, outcome, received, terminated, joined>>
  /\ UNCHANGED treeVars

\* One iteration of create's loop, second half: events.recv() for the
\* worker's Online, and its insertion into the map.
Register ==
  /\ pc = "register"
  /\ events # <<>>
  /\ events' = Tail(events)
  /\ IF Head(events).event = "Online"
     THEN /\ workers' = workers \cup {Head(events).id}
          /\ pc' = "spawn"
          /\ UNCHANGED <<ret, handles, eventsOpen, eventSender, results,
                         resultsOpen, resultSender>>
     ELSE /\ ret' = "err_create"
          /\ pc' = "returned"
          /\ handles' = FALSE
          /\ eventsOpen' = FALSE
          /\ eventSender' = FALSE
          /\ UNCHANGED <<workers, results, resultsOpen, resultSender>>
  /\ UNCHANGED <<amount, manifest, visited, wpc, wjob, jobq, jobs, finished,
                 failed, layer_tree, order, placed, dispatched, outcome,
                 received, terminated, joined>>
  /\ UNCHANGED treeVars

\* execute taking the specs from the end of the manifest (`.rev()` on the
\* drain).
ExecuteReversed ==
  /\ pc = "spawn"
  /\ Cardinality(workers) = amount
  /\ eventSender' = FALSE
  /\ resultsOpen' = TRUE
  /\ resultSender' = TRUE
  /\ jobs' = [k \in 1..Len(manifest) |-> Len(manifest) + 1 - k]
  /\ finished' = <<>>
  /\ visited' = {}
  /\ pc' = IF workers = {} THEN "loop" ELSE "assign"
  /\ UNCHANGED <<amount, manifest, ret, workers, handles, wpc, wjob, jobq,
                 events, eventsOpen, results, failed, layer_tree, order,
                 placed, dispatched, outcome, received, terminated, joined>>
  /\ UNCHANGED treeVars

\* create returning the pool one registration short (a spawn loop over
\* 1..amount instead of 0..amount).
ExecuteEarly ==
  /\ pc = "spawn"
  /\ Cardinality(workers) + 1 >= amount
  /\ eventSender' = FALSE
  /\ resultsOpen' = TRUE
  /\ resultSender' = TRUE
  /\ jobs' = [k \in 1..Len(manifest) |-> k]
  /\ finished' = <<>>
  /\ visited' = {}
  /\ pc' = IF workers = {} THEN "loop" ELSE "assign"
  /\ UNCHANGED <<amount, manifest, ret, workers, handles, wpc, wjob, jobq,
                 events, eventsOpen, results, failed, layer_tree, order,
                 placed, dispatched, outcome, received, terminated, joined>>
  /\ UNCHANGED treeVars

\* create returns the pool (its own event_sender is dropped, the result
\* channel is made), and execute starts: its locals, up to the first loop.
Execute ==
  /\ pc = "spawn"
  /\ Cardinality(workers) = amount
  /\ eventSender' = FALSE
  /\ resultsOpen' = TRUE
  /\ resultSender' = TRUE
  /\ jobs' = [k \in 1..Len(manifest) |-> k]
  /\ finished' = <<>>
  /\ visited' = {}
  /\ pc' = IF workers = {} THEN "loop" ELSE "assign"
  /\ UNCHANGED <<amount, manifest, ret, workers, handles, wpc, wjob, jobq,
                 events, eventsOpen, results, failed, layer_tree, order,
                 placed, dispatched, outcome, received, terminated, joined>>
  /\ UNCHANGED treeVars

\* The initial pass skipping a worker it has no job for without pushing it
\* to `finished`.
AssignNoFinish(w) ==
  /\ pc = "assign"
  /\ w \in workers \ visited
  /\ visited' = visited \cup {w}
  /\ pc' = IF visited' = workers THEN "loop" ELSE "assign"
  /\ IF jobs = <<>>
     THEN UNCHANGED <<finished, jobs, jobq, dispatched>>
     ELSE /\ jobq' = SendJob(jobq, w, Cloner(Head(jobs)))
          /\ dispatched' = Append(dispatched, <<Head(jobs), w>>)
          /\ jobs' = Tail(jobs)
          /\ UNCHANGED finished
  /\ UNCHANGED <<amount, manifest, ret, workers, handles, wpc, wjob, events,
                 eventsOpen, eventSender, results, resultsOpen, resultSender,
                 failed, layer_tree, order, placed, outcome, received,
                 terminated, joined>>
  /\ UNCHANGED treeVars

\* The initial pass looking at the next job without taking it off the
\* iterator (peek instead of next).
AssignPeek(w) ==
  /\ pc = "assign"
  /\ w \in workers \ visited
  /\ visited' = visited \cup {w}
  /\ pc' = IF visited' = workers THEN "loop" ELSE "assign"
  /\ IF jobs = <<>>
     THEN /\ finished' = Append(finished, w)
          /\ UNCHANGED <<jobs, jobq, dispatched>>
     ELSE /\ jobq' = SendJob(jobq, w, Cloner(Head(jobs)))
          /\ dispatched' = Append(dispatched, <<Head(jobs), w>>)
          /\ UNCHANGED <<jobs, finished>>
  /\ UNCHANGED <<amount, manifest, ret, workers, handles, wpc, wjob, events,
                 eventsOpen, eventSender, results, resultsOpen, resultSender,
                 failed, layer_tree, order, placed, outcome, received,
                 terminated, joined>>
  /\ UNCHANGED treeVars

\* The initial pass sending every job to the map's first handle instead of
\* the handle of the iteration.
AssignFirst(w) ==
  /\ pc = "assign"
  /\ w \in workers \ visited
  /\ visited' = visited \cup {w}
  /\ pc' = IF visited' = workers THEN "loop" ELSE "assign"
  /\ IF jobs = <<>>
     THEN /\ finished' = Append(finished, w)
          /\ UNCHANGED <<jobs, jobq, dispatched>>
     ELSE LET first == CHOOSE x \in workers : \A y \in workers : x <= y
          IN /\ jobq' = SendJob(jobq, first, Cloner(Head(jobs)))
             /\ dispatched' = Append(dispatched, <<Head(jobs), first>>)
             /\ jobs' = Tail(jobs)
             /\ UNCHANGED finished
  /\ UNCHANGED <<amount, manifest, ret, workers, handles, wpc, wjob, events,
                 eventsOpen, eventSender, results, resultsOpen, resultSender,
                 failed, layer_tree, order, placed, outcome, received,
                 terminated, joined>>
  /\ UNCHANGED treeVars

\* The initial pass pushing every worker it visits to `finished`, also the
\* ones it sends a job to.
AssignFinishAlways(w) ==
  /\ pc = "assign"
  /\ w \in workers \ visited
  /\ visited' = visited \cup {w}
  /\ pc' = IF visited' = workers THEN "loop" ELSE "assign"
  /\ finished' = Append(finished, w)
  /\ IF jobs = <<>>
     THEN UNCHANGED <<jobs, jobq, dispatched>>
     ELSE /\ jobq' = SendJob(jobq, w, Cloner(Head(jobs)))
          /\ dispatched' = Append(dispatched, <<Head(jobs), w>>)
          /\ jobs' = Tail(jobs)
  /\ UNCHANGED <<amount, manifest, ret, workers, handles, wpc, wjob, events,
                 eventsOpen, eventSender, results, resultsOpen, resultSender,
                 failed, layer_tree, order, placed, outcome, received,
                 terminated, joined>>
  /\ UNCHANGED treeVars

\* One iteration of execute's initial assignment pass, for worker w (the
\* HashMap's iteration order is arbitrary).
Assign(w) ==
  /\ pc = "assign"
  /\ w \in workers \ visited
  /\ visited' = visited \cup {w}
  /\ pc' = IF visited' = workers THEN "loop" ELSE "assign"
  /\ IF jobs = <<>>
     THEN /\ finished' = Append(finished, w)
          /\ UNCHANGED <<jobs, jobq, dispatched>>
     ELSE /\ jobq' = SendJob(jobq, w, Cloner(Head(jobs)))
          /\ dispatched' = Append(dispatched, <<Head(jobs), w>>)
          /\ jobs' = Tail(jobs)
          /\ UNCHANGED finished
  /\ UNCHANGED <<amount, manifest, ret, workers, handles, wpc, wjob, events,
                 eventsOpen, eventSender, results, resultsOpen, resultSender,
                 failed, layer_tree, order, placed, outcome, received,
                 terminated, joined>>
  /\ UNCHANGED treeVars

\* The dispatch loop's exit test asking for a worker as well
\* (`worker_count > 0 && finished.len() == worker_count`).
LoopExitNeedsWorker ==
  /\ pc = "loop"
  /\ Len(finished) = Cardinality(workers)
  /\ workers # {}
  /\ resultSender' = FALSE
  /\ eventsOpen' = FALSE
  /\ events' = <<>>
  /\ failed' = FALSE
  /\ layer_tree' = <<>>
  /\ pc' = "drain"
  /\ UNCHANGED <<amount, manifest, ret, workers, handles, visited, wpc, wjob,
                 jobq, eventSender, results, resultsOpen, jobs, finished,
                 order, placed, dispatched, outcome, received, terminated,
                 joined>>
  /\ UNCHANGED treeVars

\* The dispatch loop leaving as soon as one worker is finished
\* (`!finished.is_empty()` instead of `finished.len() == worker_count`).
LoopExitAny ==
  /\ pc = "loop"
  /\ Len(finished) = Cardinality(workers) \/ finished # <<>>
  /\ resultSender' = FALSE
  /\ eventsOpen' = FALSE
  /\ events' = <<>>
  /\ failed' = FALSE
  /\ layer_tree' = <<>>
  /\ pc' = "drain"
  /\ UNCHANGED <<amount, manifest, ret, workers, handles, visited, wpc, wjob,
                 jobq, eventSender, results, resultsOpen, jobs, finished,
                 order, placed, dispatched, outcome, received, terminated,
                 joined>>
  /\ UNCHANGED treeVars

\* The dispatch loop's exit, and what follows it up to the drain: both
\* sending handles dropped, `failed` and the tree initialised.
LoopExit ==
  /\ pc = "loop"
  /\ Len(finished) = Cardinality(workers)
  /\ resultSender' = FALSE
  /\ eventsOpen' = FALSE
  /\ events' = <<>>
  /\ failed' = FALSE
  /\ layer_tree' = <<>>
  /\ pc' = "drain"
  /\ UNCHANGED <<amount, manifest, ret, workers, handles, visited, wpc, wjob,
                 jobq, eventSender, results, resultsOpen, jobs, finished,
                 order, placed, dispatched, outcome, received, terminated,
                 joined>>
  /\ UNCHANGED treeVars

\* The dispatch loop's Idle arm pushing the worker to `finished` also when
\* it has just been sent a job.
LoopRecvFinishAlways ==
  /\ pc = "loop"
  /\ Len(finished) # Cardinality(workers)
  /\ events # <<>>
  /\ events' = Tail(events)
  /\ LET ev == Head(events)
     IN IF ev.event = "Idle" /\ ev.id \in workers
        THEN /\ finished' = Append(finished, ev.id)
             /\ IF jobs = <<>>
                THEN UNCHANGED <<jobs, jobq, dispatched>>
                ELSE /\ jobq' = SendJob(jobq, ev.id, Cloner(Head(jobs)))
                     /\ dispatched' = Append(dispatched, <<Head(jobs), ev.id>>)
                     /\ jobs' = Tail(jobs)
        ELSE UNCHANGED <<finished, jobs, jobq, dispatched>>
  /\ UNCHANGED <<amount, manifest, pc, ret, workers, handles, visited, wpc,
                 wjob, eventsOpen, eventSender, results, resultsOpen,
                 resultSender, failed, layer_tree, order, placed, outcome,
                 received, terminated, joined>>
  /\ UNCHANGED treeVars

\* One iteration of the dispatch loop that receives an event.
LoopRecv ==
  /\ pc = "loop"
  /\ Len(finished) # Cardinality(workers)
  /\ events # <<>>
  /\ events' = Tail(events)
  /\ LET ev == Head(events)
     IN IF ev.event = "Idle" /\ ev.id \in workers
        THEN IF jobs = <<>>
             THEN /\ finished' = Append(finished, ev.id)
                  /\ UNCHANGED <<jobs, jobq, dispatched>>
             ELSE /\ jobq' = SendJob(jobq, ev.id, Cloner(Head(jobs)))
                  /\ dispatched' = Append(dispatched, <<Head(jobs), ev.id>>)
                  /\ jobs' = Tail(jobs)
                  /\ UNCHANGED finished
        ELSE UNCHANGED <<finished, jobs, jobq, dispatched>>
  /\ UNCHANGED <<amount, manifest, pc, ret, workers, handles, visited, wpc,
                 wjob, eventsOpen, eventSender, results, resultsOpen,
                 resultSender, failed, layer_tree, order, placed, outcome,
                 received, terminated, joined>>
  /\ UNCHANGED treeVars

\* The dispatch loop giving up as soon as no event is waiting (try_recv
\* instead of recv), whether or not a worker is still alive.
LoopRecvErrTry ==
  /\ pc = "loop"
  /\ Len(finished) # Cardinality(workers)
  /\ events = <<>>
  /\ Return("err_events")
  /\ UNCHANGED <<amount, manifest, workers, visited, wpc, wjob, jobq, jobs,
                 finished, failed, layer_tree, order, placed, dispatched,
                 outcome, received, terminated, joined>>
  /\ UNCHANGED treeVars

\* The dispatch loop failing fast: it looks at the result channel and
\* returns the error as soon as an Err is on it, whoever is still running.
LoopRecvErrFailFast ==
  /\ pc = "loop"
  /\ Len(finished) # Cardinality(workers)
  /\ \/ events = <<>> /\ ~EventSendersAlive
     \/ \E i \in 1..Len(results) : ~results[i].ok
  /\ Return("err_events")
  /\ UNCHANGED <<amount, manifest, workers, visited, wpc, wjob, jobq, jobs,
                 finished, failed, layer_tree, order, placed, dispatched,
                 outcome, received, terminated, joined>>
  /\ UNCHANGED treeVars

\* The dispatch loop's events.recv() fails: the channel is empty and every
\* sender is gone. execute returns the error.
LoopRecvErr ==
  /\ pc = "loop"
  /\ Len(finished) # Cardinality(workers)
  /\ events = <<>>
  /\ ~EventSendersAlive
  /\ Return("err_events")
  /\ UNCHANGED <<amount, manifest, workers, visited, wpc, wjob, jobq, jobs,
                 finished, failed, layer_tree, order, placed, dispatched,
                 outcome, received, terminated, joined>>
  /\ UNCHANGED treeVars

\* The drain taking the newest outcome of the channel instead of the oldest.
DrainRecvLast ==
  /\ pc = "drain"
  /\ results # <<>>
  /\ results' = Front(results)
  /\ received' = Append(received, Last(results).temp)
  /\ IF Last(results).ok
     THEN /\ layer_tree' = Add(layer_tree, Last(results).src, Last(results).temp)
          /\ UNCHANGED failed
     ELSE /\ failed' = TRUE
          /\ UNCHANGED layer_tree
  /\ UNCHANGED <<amount, manifest, pc, ret, workers, handles, visited, wpc,
                 wjob, jobq, events, eventsOpen, eventSender, resultsOpen,
                 resultSender, jobs, finished, order, placed, dispatched,
                 outcome, terminated, joined>>
  /\ UNCHANGED treeVars

\* One iteration of the drain: an outcome is received.
DrainRecv ==
  /\ pc = "drain"
  /\ results # <<>>
  /\ results' = Tail(results)
  /\ received' = Append(received, Head(results).temp)
  /\ IF Head(results).ok
     THEN /\ layer_tree' = Add(layer_tree, Head(results).src, Head(results).temp)
          /\ UNCHANGED failed
     ELSE /\ failed' = TRUE
          /\ UNCHANGED layer_tree
  /\ UNCHANGED <<amount, manifest, pc, ret, workers, handles, visited, wpc,
                 wjob, jobq, events, eventsOpen, eventSender, resultsOpen,
                 resultSender, jobs, finished, order, placed, dispatched,
                 outcome, terminated, joined>>
  /\ UNCHANGED treeVars

\* The drain's recv() fails (empty, every sender gone), and the `failed`
\* check that follows it.
DrainEnd ==
  /\ pc = "drain"
  /\ results = <<>>
  /\ ~ResultSendersAlive
  /\ IF failed
     THEN /\ Return("err_failed")
          /\ UNCHANGED visited
     ELSE /\ pc' = IF workers = {} THEN "consume" ELSE "terminate"
          /\ visited' = {}
          /\ UNCHANGED <<ret, handles, events, eventsOpen, eventSender,
                         results, resultsOpen, resultSender>>
  /\ UNCHANGED <<amount, manifest, workers, wpc, wjob, jobq, jobs, finished,
                 failed, layer_tree, order, placed, dispatched, outcome,
                 received, terminated, joined>>
  /\ UNCHANGED treeVars

\* The Terminate loop visiting worker w without sending it anything.
SendTerminateSkipped(w) ==
  /\ pc = "terminate"
  /\ w \in workers \ visited
  /\ visited' = visited \cup {w}
  /\ pc' = IF visited' = workers THEN "consume" ELSE "terminate"
  /\ UNCHANGED <<amount, manifest, ret, workers, handles, wpc, wjob, jobq,
                 events, eventsOpen, eventSender, results, resultsOpen,
                 resultSender, jobs, finished, failed, layer_tree, order,
                 placed, dispatched, outcome, received, terminated, joined>>
  /\ UNCHANGED treeVars

\* One iteration of the Terminate loop, for worker w.
SendTerminate(w) ==
  /\ pc = "terminate"
  /\ w \in workers \ visited
  /\ visited' = visited \cup {w}
  /\ pc' = IF visited' = workers THEN "consume" ELSE "terminate"
  /\ jobq' = SendJob(jobq, w, Terminate)
  /\ terminated' = terminated \cup {w}
  /\ UNCHANGED <<amount, manifest, ret, workers, handles, wpc, wjob, events,
                 eventsOpen, eventSender, results, resultsOpen, resultSender,
                 jobs, finished, failed, layer_tree, order, placed,
                 dispatched, outcome, received, joined>>
  /\ UNCHANGED treeVars

\* layer_tree.consume()
ConsumeTree ==
  /\ pc = "consume"
  /\ order' = Consume(layer_tree)
  /\ layer_tree' = <<>>
  /\ pc' = "place"
  /\ UNCHANGED <<amount, manifest, ret, workers, handles, visited, wpc, wjob,
                 jobq, events, eventsOpen, eventSender, results, resultsOpen,
                 resultSender, jobs, finished, failed, placed, dispatched,
                 outcome, received, terminated, joined>>
  /\ UNCHANGED treeVars

\* One iteration of the placement loop in which create_dir_all and rename
\* both succeed.
PlaceOk ==
  /\ pc = "place"
  /\ order # <<>>
  /\ ~Occupied(Head(order)[1])
  /\ placed' = Append(placed, Head(order)[1])
  /\ order' = Tail(order)
  /\ UNCHANGED <<amount, manifest, pc, ret, workers, handles, visited, wpc,
                 wjob, jobq, events, eventsOpen, eventSender, results,
                 resultsOpen, resultSender, jobs, finished, failed,
                 layer_tree, dispatched, outcome, received, terminated,
                 joined>>
  /\ UNCHANGED treeVars

\* A failing placement step that is only logged: the loop goes on with the
\* next pair (`if let Err(..) = rename(..) { log }` instead of `?`).
PlaceFailSkip ==
  /\ pc = "place"
  /\ order # <<>>
  /\ order' = Tail(order)
  /\ UNCHANGED <<amount, manifest, pc, ret, workers, handles, visited, wpc,
                 wjob, jobq, events, eventsOpen, eventSender, results,
                 resultsOpen, resultSender, jobs, finished, failed,
                 layer_tree, placed, dispatched, outcome, received,
                 terminated, joined>>
  /\ UNCHANGED treeVars

\* A failing placement step that undoes the placements made before it.
PlaceFailRollback ==
  /\ pc = "place"
  /\ order # <<>>
  /\ Return("err_place")
  /\ placed' = <<>>
  /\ UNCHANGED <<amount, manifest, workers, visited, wpc, wjob, jobq, jobs,
                 finished, failed, layer_tree, order, dispatched, outcome,
                 received, terminated, joined>>
  /\ UNCHANGED treeVars

\* One iteration of the placement loop in which create_dir_all or rename
\* fails: the `?` returns the error.
PlaceFail ==
  /\ pc = "place"
  /\ order # <<>>
  /\ Return("err_place")
  /\ UNCHANGED <<amount, manifest, workers, visited, wpc, wjob, jobq, jobs,
                 finished, failed, layer_tree, order, placed, dispatched,
                 outcome, received, terminated, joined>>
  /\ UNCHANGED treeVars

\* The placement loop's end.
PlaceDone ==
  /\ pc = "place"
  /\ order = <<>>
  /\ pc' = "join"
  /\ UNCHANGED <<amount, manifest, ret, workers, handles, visited, wpc, wjob,
                 jobq, events, eventsOpen, eventSender, results, resultsOpen,
                 resultSender, jobs, finished, failed, layer_tree, order,
                 placed, dispatched, outcome, received, terminated, joined>>
  /\ UNCHANGED treeVars

\* One iteration of the join loop: handle.join() returns once worker w's
\* thread has ended.
Join(w) ==
  /\ pc = "join"
  /\ w \in workers \ joined
  /\ wpc[w] = "dead"
  /\ joined' = joined \cup {w}
  /\ UNCHANGED <<amount, manifest, pc, ret, workers, handles, visited, wpc,
                 wjob, jobq, events, eventsOpen, eventSender, results,
                 resultsOpen, resultSender, jobs, finished, failed,
                 layer_tree, order, placed, dispatched, outcome, received,
                 terminated>>
  /\ UNCHANGED treeVars

\* execute returns Ok(()).
ReturnOk ==
  /\ pc = "join"
  /\ joined = workers
  /\ Return("ok")
  /\ UNCHANGED <<amount, manifest, workers, visited, wpc, wjob, jobq, jobs,
                 finished, failed, layer_tree, order, placed, dispatched,
                 outcome, received, terminated, joined>>
  /\ UNCHANGED treeVars

\* The worker thread's start: its identity, its job channel, and Online.
WorkerStart(w) ==
  /\ wpc[w] = "start"
  /\ IF eventsOpen
     THEN /\ events' = Append(events, [event |-> "Online", id |-> w])
          /\ wpc' = [wpc EXCEPT ![w] = "recv"]
     ELSE /\ wpc' = [wpc EXCEPT ![w] = "dead"]
          /\ UNCHANGED events
  /\ UNCHANGED <<amount, manifest, pc, ret, workers, handles, visited, wjob,
                 jobq, eventsOpen, eventSender, results, resultsOpen,
                 resultSender, jobs, finished, failed, layer_tree, order,
                 placed, dispatched, outcome, received, terminated, joined>>
  /\ UNCHANGED treeVars

\* The run loop taking Terminate for a message to skip (`continue` instead
\* of `break`): the thread ends only when its job channel has no sender.
WorkerRecvSkipsTerminate(w) ==
  /\ wpc[w] = "recv"
  /\ jobq[w] # <<>> \/ ~handles
  /\ IF jobq[w] # <<>> /\ Head(jobq[w]).job = "Cloner"
     THEN /\ wpc' = [wpc EXCEPT ![w] = "run"]
          /\ wjob' = [wjob EXCEPT ![w] = Head(jobq[w]).source]
          /\ jobq' = [jobq EXCEPT ![w] = Tail(@)]
     ELSE IF jobq[w] # <<>>
     THEN /\ jobq' = [jobq EXCEPT ![w] = Tail(@)]
          /\ UNCHANGED <<wpc, wjob>>
     ELSE /\ wpc' = [wpc EXCEPT ![w] = "dead"]
          /\ UNCHANGED <<jobq, wjob>>
  /\ UNCHANGED <<amount, manifest, pc, ret, workers, handles, visited, events,
                 eventsOpen, eventSender, results, resultsOpen, resultSender,
                 jobs, finished, failed, layer_tree, order, placed,
                 dispatched, outcome, received, terminated, joined>>
  /\ UNCHANGED treeVars

\* job_receiver.recv() returns: a Cloner job starts the clone task;
\* Terminate, or a channel with no sender left, ends the thread.
WorkerRecv(w) ==
  /\ wpc[w] = "recv"
  /\ jobq[w] # <<>> \/ ~handles
  /\ IF jobq[w] # <<>> /\ Head(jobq[w]).job = "Cloner"
     THEN /\ wpc' = [wpc EXCEPT ![w] = "run"]
          /\ wjob' = [wjob EXCEPT ![w] = Head(jobq[w]).source]
          /\ jobq' = [jobq EXCEPT ![w] = Tail(@)]
     ELSE /\ wpc' = [wpc EXCEPT ![w] = "dead"]
          /\ jobq' = [jobq EXCEPT ![w] = <<>>]
          /\ UNCHANGED wjob
  /\ UNCHANGED <<amount, manifest, pc, ret, workers, handles, visited, events,
                 eventsOpen, eventSender, results, resultsOpen, resultSender,
                 jobs, finished, failed, layer_tree, order, placed,
                 dispatched, outcome, received, terminated, joined>>
  /\ UNCHANGED treeVars

\* A failing step of the clone task that sends its error and goes on to the
\* Idle announcement at the end of the loop body instead of returning.
WorkerCloneFailThenIdle(w) ==
  /\ wpc[w] = "run"
  /\ results' = IF resultsOpen
                THEN Append(results, [ok |-> FALSE, src |-> <<>>, temp |-> wjob[w]])
                ELSE results
  /\ outcome' = [outcome EXCEPT ![wjob[w]] = "err"]
  /\ wpc' = [wpc EXCEPT ![w] = "sent"]
  /\ UNCHANGED <<amount, manifest, pc, ret, workers, handles, visited, wjob,
                 jobq, events, eventsOpen, eventSender, resultsOpen,
                 resultSender, jobs, finished, failed, layer_tree, order,
                 placed, dispatched, received, terminated, joined>>
  /\ UNCHANGED treeVars

\* A failing step of the clone task that sends its error and, for want of
\* the `return`, goes on to the end of the task and sends the Ok pair too.
WorkerCloneFailNoReturn(w) ==
  /\ wpc[w] = "run"
  /\ results' = (results \o <<[ok |-> FALSE, src |-> <<>>, temp |-> wjob[w]]>>)
                  \o <<[ok |-> TRUE,
                        src |-> SourcePath(DestRoot, manifest[wjob[w]]),
                        temp |-> wjob[w]]>>
  /\ outcome' = [outcome EXCEPT ![wjob[w]] = "err"]
  /\ wpc' = [wpc EXCEPT ![w] = "sent"]
  /\ UNCHANGED <<amount, manifest, pc, ret, workers, handles, visited, wjob,
                 jobq, events, eventsOpen, eventSender, resultsOpen,
                 resultSender, jobs, finished, failed, layer_tree, order,
                 placed, dispatched, received, terminated, joined>>
  /\ UNCHANGED treeVars

\* A failing step of the clone task that is only logged: no outcome is
\* sent, and the worker goes on to report Idle as after a success.
WorkerCloneFailSwallowed(w) ==
  /\ wpc[w] = "run"
  /\ outcome' = [outcome EXCEPT ![wjob[w]] = "err"]
  /\ wpc' = [wpc EXCEPT ![w] = "sent"]
  /\ UNCHANGED <<amount, manifest, pc, ret, workers, handles, visited, wjob,
                 jobq, events, eventsOpen, eventSender, results, resultsOpen,
                 resultSender, jobs, finished, failed, layer_tree, order,
                 placed, dispatched, received, terminated, joined>>
  /\ UNCHANGED treeVars

\* A step of the clone task fails (the staging directory, the clone, the
\* revision, the head, the checkout or the reset): the error is sent as the
\* job's outcome and the thread returns.
WorkerCloneFail(w) ==
  /\ wpc[w] = "run"
  /\ results' = IF resultsOpen
                THEN Append(results, [ok |-> FALSE, src |-> <<>>, temp |-> wjob[w]])
                ELSE results
  /\ outcome' = [outcome EXCEPT ![wjob[w]] = "err"]
  /\ wpc' = [wpc EXCEPT ![w] = "dead"]
  /\ wjob' = [wjob EXCEPT ![w] = 0]
  /\ jobq' = [jobq EXCEPT ![w] = <<>>]
  /\ UNCHANGED <<amount, manifest, pc, ret, workers, handles, visited, events,
                 eventsOpen, eventSender, resultsOpen, resultSender, jobs,
                 finished, failed, layer_tree, order, placed, dispatched,
                 received, terminated, joined>>
  /\ UNCHANGED treeVars

\* Every step of the clone task succeeds: the (final path, staged path)
\* pair is sent as the job's outcome.
WorkerCloneOk(w) ==
  /\ wpc[w] = "run"
  /\ IF resultsOpen
     THEN /\ results' = Append(results,
                          [ok |-> TRUE,
                           src |-> SourcePath(DestRoot, manifest[wjob[w]]),
                           temp |-> wjob[w]])
          /\ outcome' = [outcome EXCEPT ![wjob[w]] = "ok"]
          /\ wpc' = [wpc EXCEPT ![w] = "sent"]
          /\ UNCHANGED <<wjob, jobq>>
     ELSE /\ wpc' = [wpc EXCEPT ![w] = "dead"]
          /\ wjob' = [wjob EXCEPT ![w] = 0]
          /\ jobq' = [jobq EXCEPT ![w] = <<>>]
          /\ UNCHANGED <<results, outcome>>
  /\ UNCHANGED <<amount, manifest, pc, ret, workers, handles, visited, events,
                 eventsOpen, eventSender, resultsOpen, resultSender, jobs,
                 finished, failed, layer_tree, order, placed, dispatched,
                 received, terminated, joined>>
  /\ UNCHANGED treeVars

\* es.send(WorkerEvent::Idle(id)) after a successful job.
WorkerIdle(w) ==
  /\ wpc[w] = "sent"
  /\ IF eventsOpen
     THEN /\ events' = Append(events, [event |-> "Idle", id |-> w])
          /\ wpc' = [wpc EXCEPT ![w] = "idle"]
          /\ UNCHANGED <<wjob, jobq>>
     ELSE /\ wpc' = [wpc EXCEPT ![w] = "dead"]
          /\ wjob' = [wjob EXCEPT ![w] = 0]
          /\ jobq' = [jobq EXCEPT ![w] = <<>>]
          /\ UNCHANGED events
  /\ UNCHANGED <<amount, manifest, pc, ret, workers, handles, visited,
                 eventsOpen, eventSender, results, resultsOpen, resultSender,
                 jobs, finished, failed, layer_tree, order, placed,
                 dispatched, outcome, received, terminated, joined>>
  /\ UNCHANGED treeVars

\* The end of the run loop's body: the job's result sender is dropped and
\* the worker goes back to job_receiver.recv().
WorkerLoop(w) ==
  /\ wpc[w] = "idle"
  /\ wpc' = [wpc EXCEPT ![w] = "recv"]
  /\ wjob' = [wjob EXCEPT ![w] = 0]
  /\ UNCHANGED <<amount, manifest, pc, ret, workers, handles, visited, jobq,
                 events, eventsOpen, eventSender, results, resultsOpen,
                 resultSender, jobs, finished, failed, layer_tree, order,
                 placed, dispatched, outcome, received, terminated, joined>>
  /\ UNCHANGED treeVars

\* The coordinating thread's steps.
Coordinator ==
  \/ CreateDirs
  \/ Spawn
  \/ Register
  \/ Execute
  \/ \E w \in 1..MaxWorkers : Assign(w)
  \/ LoopExit
  \/ LoopRecv
  \/ LoopRecvErr
  \/ DrainRecv
  \/ DrainEnd
  \/ \E w \in 1..MaxWorkers : SendTerminate(w)
  \/ ConsumeTree
  \/ PlaceOk
  \/ PlaceFail
  \/ PlaceDone
  \/ \E w \in 1..MaxWorkers : Join(w)
  \/ ReturnOk

\* Worker thread w's steps.
Worker(w) ==
  \/ WorkerStart(w)
  \/ WorkerRecv(w)
  \/ WorkerCloneFail(w)
  \/ WorkerCloneOk(w)
  \/ WorkerIdle(w)
  \/ WorkerLoop(w)

Next == Coordinator \/ \E w \in 1..MaxWorkers : Worker(w)

Spec == Init /\ [][Next]_vars

\* The manifest of m sources whose destinations are nested in one another,
\* the deepest first: a/a/a, a/a, a for m = 3.
NestedManifest(m) == [k \in 1..m |-> [i \in 1..(m - k + 1) |-> 1]]

\* The pool on the nested manifests only.
LiveInit == PoolInit({NestedManifest(m) : m \in 0..MaxSpecs})

\* Every thread that can take a step eventually takes one: the threads are
\* scheduled by the operating system, and every clone finishes.
LiveSpec ==
  /\ LiveInit
  /\ [][Next]_vars
  /\ WF_vars(Coordinator)
  /\ \A w \in 1..MaxWorkers : WF_vars(Worker(w))

\* ------------------------------------------------- claims about the pool

\* execute has returned (create did not fail).
ExecuteReturned == pc = "returned" /\ ret # "err_create"

\* The manifest's destinations are pairwise distinct.
DistinctManifest ==
  \A i, j \in 1..Len(manifest) : manifest[i] = manifest[j] => i = j

\* Some job's clone task failed.
AnyFailed == \E k \in 1..Len(manifest) : outcome[k] = "err"

\* Source k was sent to a worker as a Cloner job.
Dispatched(k) == \E i \in 1..Len(dispatched) : dispatched[i][1] = k

\* The jobs sent to worker w that have not produced their outcome.
Outstanding(w) ==
  {i \in 1..Len(dispatched) :
     dispatched[i][2] = w /\ outcome[dispatched[i][1]] = "none"}

\* The final paths of the placement steps, performed and still to perform,
\* in order.
PlacementSteps == placed \o [i \in 1..Len(order) |-> order[i][1]]

\* C1: with N >= 1 workers, pairwise distinct destinations and every clone
\* successful, the placement steps of execute place each destination before
\* every strict descendant of it, and no rename targets a directory in which
\* a destination was already placed.
C1_PlacementParentFirst ==
  (amount >= 1 /\ DistinctManifest /\ ~AnyFailed /\ pc \in {"place", "join", "returned"}) =>
    /\ \A i, j \in 1..Len(PlacementSteps) :
         StrictDescendant(PlacementSteps[j], PlacementSteps[i]) => i < j
    /\ (pc = "place" /\ order # <<>>) => ~Occupied(Head(order)[1])

\* C1 witness: the nested destination's clone finished first, and both were
\* placed, the parent first.
C1_Witness ==
  /\ manifest = <<<<1, 1>>, <<1>>>>
  /\ received = <<1, 2>>
  /\ placed = <<<<0, 1>>, <<0, 1, 1>>>>
  /\ ret = "ok"

\* C3 (as claimed): once a job has failed, execute goes on until it returns,
\* and what it returns is a failure: it neither stops short of returning
\* nor returns Ok.
C3_FailureReturnsErr ==
  (amount >= 1 /\ AnyFailed) =>
    IF ret = "none" THEN ENABLED Next
    ELSE ret \in {"err_events", "err_failed", "err_place"}

\* C4: when some job has failed, no placement step is ever performed.
C4_NoPlacementAfterFailure ==
  AnyFailed =>
    /\ placed = <<>>
    /\ order = <<>>
    /\ pc \notin {"consume", "place", "join"}
    /\ ret \notin {"ok", "err_place"}

\* C4 witness: of two jobs one succeeded, the other failed, and the
\* succeeded one's staged directory is never placed.
C4_Witness ==
  /\ Len(manifest) = 2
  /\ \E k \in 1..2 : outcome[k] = "ok"
  /\ \E k \in 1..2 : outcome[k] = "err"
  /\ \A w \in workers : wpc[w] \in {"recv", "dead"}

\* C5: with N >= 1 workers and pairwise distinct destinations, unless a
\* clone or a placement step fails, execute eventually returns Ok with all M
\* destinations placed and every worker thread ended.
C5_SuccessReturnsOk ==
  <>(\/ amount = 0
     \/ ~DistinctManifest
     \/ AnyFailed
     \/ ret \in {"err_create", "err_place"}
     \/ /\ ret = "ok"
        /\ Len(placed) = Len(manifest)
        /\ Cardinality(workers) = amount
        /\ \A w \in workers : wpc[w] = "dead")

\* C5 witness: two workers, two specs, execute returned Ok.
C5_Witness ==
  /\ amount = 2
  /\ Len(manifest) = 2
  /\ ret = "ok"
  /\ Len(placed) = 2
  /\ \A w \in workers : wpc[w] = "dead"

\* C6 (as claimed): every spec of the manifest is dispatched, also after a
\* job failed: execute does not return with a spec left undispatched.
C6_EverySpecDispatched ==
  (amount >= 1 /\ ExecuteReturned) => \A k \in 1..Len(manifest) : Dispatched(k)

\* C7: when execute has returned, every dispatched job has produced its
\* outcome.
C7_NoReturnBeforeOutcomes ==
  ExecuteReturned =>
    \A k \in 1..Len(manifest) : Dispatched(k) => outcome[k] # "none"

\* C7 witness: execute returned an error after its only worker failed a job.
C7_Witness ==
  /\ ret = "err_events"
  /\ \E k \in 1..Len(manifest) : Dispatched(k) /\ outcome[k] = "err"

\* C8: each worker has at most one dispatched job without an outcome, so at
\* most N clones are in progress.
C8_OneJobPerWorker ==
  /\ \A w \in 1..MaxWorkers : Cardinality(Outstanding(w)) <= 1
  /\ Cardinality({i \in 1..Len(dispatched) : outcome[dispatched[i][1]] = "none"})
       <= amount

\* C8 witness: one worker was sent its second job after finishing its first.
C8_Witness ==
  /\ amount = 1
  /\ Len(dispatched) = 2
  /\ outcome[1] = "ok"
  /\ outcome[2] = "none"
  /\ Cardinality(Outstanding(1)) = 1

\* C9 (as claimed): all M outcomes are received by the coordinator: execute
\* does not return before it received them.
C9_AllOutcomesReceived ==
  (amount >= 1 /\ ExecuteReturned) => Len(received) = Len(manifest)

\* C10 (as claimed): whenever execute returns, a Terminate was sent to every
\* registered worker and every worker thread was joined.
C10_ReturnAfterTerminateAndJoin ==
  ExecuteReturned => (terminated = workers /\ joined = workers)

\* The initial assignment pass of execute is over.
PastAssign ==
  pc \notin {"create", "spawn", "register", "assign"} /\ ret # "err_create"

\* The workers that were sent a Cloner job.
DispatchedTo == {dispatched[i][2] : i \in 1..Len(dispatched)}

\* C11: with M <= N, exactly M Cloner jobs are dispatched, to M distinct
\* workers; the other N - M workers are the ones the initial pass marked
\* finished, and none of them is ever sent a Cloner job.
C11_FewSpecsOneJobEach ==
  (amount >= 1 /\ Len(manifest) <= amount /\ PastAssign) =>
    /\ Len(dispatched) = Len(manifest)
    /\ \A i, j \in 1..Len(dispatched) : dispatched[i][2] = dispatched[j][2] => i = j
    /\ Cardinality(workers \ DispatchedTo) = amount - Len(manifest)
    /\ Len(finished) >= amount - Len(manifest)
    /\ {finished[i] : i \in 1..(amount - Len(manifest))} = workers \ DispatchedTo

\* C11 witness: two workers and one spec, the initial pass just over: one
\* job was sent and the other worker is finished.
C11_Witness ==
  /\ amount = 2
  /\ Len(manifest) = 1
  /\ pc = "loop"
  /\ Len(dispatched) = 1
  /\ Len(finished) = 1
  /\ finished[1] \notin DispatchedTo

\* C12: no spec is sent as a Cloner job twice, to two workers or to the
\* same one.
C12_DispatchedOnce ==
  \A i, j \in 1..Len(dispatched) : dispatched[i][1] = dispatched[j][1] => i = j

\* C12 witness: one worker was sent both specs, the second on its Idle.
C12_Witness ==
  /\ amount = 1
  /\ Len(manifest) = 2
  /\ dispatched = <<<<1, 1>>, <<2, 1>>>>
  /\ ret = "ok"

\* The outcomes of source k's job on the result channel: those waiting in it
\* and those the drain has taken out of it.
OutcomesSent(k) ==
  Cardinality({i \in 1..Len(results) : results[i].temp = k})
    + Cardinality({i \in 1..Len(received) : received[i] = k})

\* Source k's job is still waiting in a worker's job channel.
Queued(k) ==
  \E w \in 1..MaxWorkers : \E i \in 1..Len(jobq[w]) : jobq[w][i] = Cloner(k)

\* Source k's clone task is running in a worker.
Running(k) == \E w \in 1..MaxWorkers : wpc[w] = "run" /\ wjob[w] = k

\* C13: every dispatched job produces exactly one outcome on the result
\* channel: none before its clone task ends, one (Ok or Err) from then on,
\* never two; a job that was not dispatched produces none.
C13_ExactlyOneOutcome ==
  pc # "returned" =>
    \A k \in 1..Len(manifest) :
      /\ OutcomesSent(k) <= 1
      /\ OutcomesSent(k) = 1 <=> outcome[k] # "none"
      /\ OutcomesSent(k) = 1 => Dispatched(k)
      /\ (Dispatched(k) /\ ~Queued(k) /\ ~Running(k)) => OutcomesSent(k) = 1

\* C13 witness: of two jobs one has sent its Ok pair and the other its Err,
\* and both are on the result channel.
C13_Witness ==
  /\ pc # "returned"
  /\ Len(results) = 2
  /\ \E i, j \in 1..2 : results[i].ok /\ ~results[j].ok
  /\ OutcomesSent(1) = 1
  /\ OutcomesSent(2) = 1

\* C19: a placement step that fails makes execute return the failure at
\* once, out of the placement loop, with every earlier placement left in
\* place and the pairs from the failing one on left unplaced; after that
\* return nothing is placed or undone any more.
C19_PlacementFailureReturns ==
  [][/\ (ret = "none" /\ ret' = "err_place") =>
          /\ pc = "place"
          /\ order # <<>>
          /\ pc' = "returned"
          /\ placed' = placed
          /\ order' = order
     /\ ret = "err_place" =>
          /\ ret' = "err_place"
          /\ pc' = "returned"
          /\ placed' = placed
          /\ order' = order]_vars

\* C19 witness: of two pairs the first was placed and the second failed:
\* execute returned the failure and the first placement is still there.
C19_Witness ==
  /\ ret = "err_place"
  /\ pc = "returned"
  /\ Len(placed) = 1
  /\ Len(order) = 1

\* C20: on a pool of N >= 1 workers execute returns Ok only when each of the
\* M sources was dispatched and produced a Ready (Ok) outcome that the drain
\* received, and each of the M staged directories was renamed to its final
\* destination.
C20_OkOnlyIfAllPlaced ==
  (amount >= 1 /\ ret = "ok") =>
    /\ \A k \in 1..Len(manifest) :
         /\ Dispatched(k)
         /\ outcome[k] = "ok"
         /\ \E i \in 1..Len(received) : received[i] = k
         /\ \E i \in 1..Len(placed) :
              placed[i] = SourcePath(DestRoot, manifest[k])
    /\ Len(placed) = Len(manifest)
    /\ order = <<>>
    /\ ~failed

\* C20 witness: execute returned Ok on two workers and two sources, both
\* placed.
C20_Witness ==
  /\ amount = 2
  /\ ret = "ok"
  /\ manifest = <<<<2>>, <<1>>>>
  /\ Len(placed) = 2

\* C21: create(N, ..) with N >= 1 returns the pool only when each of the N
\* spawned workers has sent its Online and all N were received: the pool
\* holds exactly the N identities, each with its own job queue, and no
\* registration is left on the event channel. Before that, the workers
\* registered are the first of those spawned, one registration behind at
\* most.
C21_CreateRegistersAll ==
  /\ workers \subseteq 1..amount
  /\ \A w \in 1..MaxWorkers : (w \in workers) => wpc[w] \notin {"unspawned", "start"}
  /\ \A w \in 1..MaxWorkers : w > amount => wpc[w] = "unspawned"
  /\ (amount >= 1 /\ (PastAssign \/ pc = "assign")) =>
       /\ workers = 1..amount
       /\ Cardinality(workers) = amount
       /\ DOMAIN jobq = 1..MaxWorkers
       /\ \A i \in 1..Len(events) : events[i].event # "Online"

\* C21 witness: create(2, ..) has returned the pool, both workers registered
\* and waiting for their first job.
C21_Witness ==
  /\ amount = 2
  /\ pc = "assign"
  /\ visited = {}
  /\ workers = {1, 2}
  /\ wpc[1] = "recv"
  /\ wpc[2] = "recv"

\* The dispatch loop takes an event off the event channel in this step.
LoopTakesEvent == pc = "loop" /\ pc' = "loop" /\ Len(events') < Len(events)

\* C22: the dispatch loop answers each Idle of a registered worker in
\* exactly one of two ways: with specs left, the next spec goes as one Cloner
\* job to that worker and nobody is marked finished; with none left, that
\* worker is marked finished and no job is sent. A Cloner job is sent only
\* by the initial pass, to the worker it visits, or in answer to the
\* receiving worker's own Idle.
C22_IdleAnswered ==
  [][/\ (LoopTakesEvent /\ Head(events).event = "Idle" /\ Head(events).id \in workers) =>
          LET w == Head(events).id
          IN IF jobs # <<>>
             THEN /\ dispatched' = Append(dispatched, <<Head(jobs), w>>)
                  /\ jobq' = [jobq EXCEPT ![w] = Append(@, Cloner(Head(jobs)))]
                  /\ jobs' = Tail(jobs)
                  /\ finished' = finished
             ELSE /\ finished' = Append(finished, w)
                  /\ dispatched' = dispatched
                  /\ jobq' = jobq
                  /\ jobs' = jobs
     /\ dispatched' # dispatched =>
          /\ Len(dispatched') = Len(dispatched) + 1
          /\ SubSeq(dispatched', 1, Len(dispatched)) = dispatched
          /\ \/ /\ pc = "assign"
                /\ Last(dispatched')[2] \in workers \ visited
                /\ visited' = visited \cup {Last(dispatched')[2]}
             \/ /\ LoopTakesEvent
                /\ Head(events) = [event |-> "Idle", id |-> Last(dispatched')[2]]
     /\ \A w \in 1..MaxWorkers :
          (Len(jobq'[w]) > Len(jobq[w]) /\ Last(jobq'[w]).job = "Cloner") =>
            /\ dispatched' # dispatched
            /\ Last(dispatched')[2] = w]_vars

\* C22 witness: one worker, two sources: the worker's first Idle was
\* answered with the second source, its second Idle by marking it finished.
C22_Witness ==
  /\ amount = 1
  /\ Len(manifest) = 2
  /\ pc = "loop"
  /\ dispatched = <<<<1, 1>>, <<2, 1>>>>
  /\ finished = <<1>>

\* C23: the k-th Cloner job that execute sends, the initial pass and the
\* answers to Idle counted together, carries the k-th spec of the manifest,
\* whichever worker it goes to; the specs not yet sent are the rest of the
\* manifest in order.
C23_ManifestOrder ==
  /\ \A i \in 1..Len(dispatched) : dispatched[i][1] = i
  /\ (pc \in {"assign", "loop"}) =>
       jobs = [i \in 1..(Len(manifest) - Len(dispatched)) |-> Len(dispatched) + i]

\* C23 witness: with one worker, the first spec went out in the initial pass
\* and the second in answer to the worker's Idle, and is running.
C23_Witness ==
  /\ amount = 1
  /\ Len(manifest) = 2
  /\ pc = "loop"
  /\ dispatched = <<<<1, 1>>, <<2, 1>>>>
  /\ wpc[1] = "run"
  /\ wjob[1] = 2

\* The staged paths of a sequence of outcomes.
Temps(msgs) == [i \in 1..Len(msgs) |-> msgs[i].temp]

\* C29: the placement tree receives nothing before the dispatch loop has
\* ended (until then outcomes are only enqueued, each behind the earlier
\* ones); from then on no outcome is enqueued any more, and the drain takes
\* the outcomes oldest first, adding each Ready one to the tree as it is
\* taken: the tree is built in clone completion order.
C29_TreeFilledInArrivalOrder ==
  [][/\ pc \in {"create", "spawn", "register", "assign", "loop"} =>
          /\ layer_tree = <<>>
          /\ received = <<>>
          /\ (results' # results /\ pc' # "returned") =>
               /\ Len(results') = Len(results) + 1
               /\ SubSeq(results', 1, Len(results)) = results
     /\ pc = "drain" =>
          /\ received \o Temps(results) = received' \o Temps(results')
          /\ results' # results =>
               /\ results' = Tail(results)
               /\ received' = Append(received, Head(results).temp)
               /\ layer_tree' =
                    IF Head(results).ok
                    THEN Add(layer_tree, Head(results).src, Head(results).temp)
                    ELSE layer_tree
          /\ results' = results => layer_tree' = layer_tree
     /\ pc \notin {"create", "spawn", "register", "assign", "loop", "drain"} =>
          received' = received]_vars

\* C29 witness: two workers, two sources: the second source's clone ended
\* first, and the drain added it to the tree before the first.
C29_Witness ==
  /\ amount = 2
  /\ pc = "drain"
  /\ results = <<>>
  /\ received = <<2, 1>>
  /\ layer_tree # <<>>
  /\ layer_tree[1].temp = 2

\* C30: a worker whose job failed has enqueued that job's Err and ended its
\* thread: no Idle of that worker is on the event channel, the failed job
\* is the last one sent to it, its job queue is gone, and it is not in the
\* coordinator's `finished` list.
C30_FailedWorkerEnds ==
  \A i \in 1..Len(dispatched) :
    outcome[dispatched[i][1]] = "err" =>
      LET k == dispatched[i][1]
          w == dispatched[i][2]
      IN /\ wpc[w] = "dead"
         /\ jobq[w] = <<>>
         /\ \A j \in 1..Len(finished) : finished[j] # w
         /\ \A j \in 1..Len(events) : events[j] # [event |-> "Idle", id |-> w]
         /\ \A j \in 1..Len(dispatched) : j > i => dispatched[j][2] # w
         /\ pc # "returned" =>
              \E j \in 1..Len(results) : results[j].temp = k /\ ~results[j].ok

\* C30 witness: of two workers one failed its job and is gone while the
\* other finished its job and was marked finished: the dispatch loop waits.
C30_Witness ==
  /\ amount = 2
  /\ pc = "loop"
  /\ Len(dispatched) = 2
  /\ outcome[dispatched[1][1]] = "err"
  /\ outcome[dispatched[2][1]] = "ok"
  /\ wpc[dispatched[1][2]] = "dead"
  /\ finished = <<dispatched[2][2]>>

\* ------------------------------------------- the pool with a hung clone

\* The repository of source k never answers: `builder.clone` of the source
\* placed at destination b does not return.
Hangs(k) == k \in 1..Len(manifest) /\ manifest[k] = <<2>>

\* The manifests of the hung-clone runs: the nested manifests, and the
\* nested manifests behind a first source whose clone hangs.
StuckInit ==
  PoolInit({NestedManifest(m) : m \in 0..MaxSpecs}
             \cup {<<(<<2>>)>> \o NestedManifest(m) : m \in 0..MaxSpecs})

\* Worker thread w's steps when a hung clone never ends its task.
StuckWorker(w) ==
  \/ WorkerStart(w)
  \/ WorkerRecv(w)
  \/ ~Hangs(wjob[w]) /\ WorkerCloneFail(w)
  \/ ~Hangs(wjob[w]) /\ WorkerCloneOk(w)
  \/ WorkerIdle(w)
  \/ WorkerLoop(w)

StuckNext == Coordinator \/ \E w \in 1..MaxWorkers : StuckWorker(w)

StuckSpec == StuckInit /\ [][StuckNext]_vars

\* Worker w is stuck in the hung clone.
Stuck(w) == wpc[w] = "run" /\ Hangs(wjob[w])

\* C14 (as claimed): while one worker is stuck forever in a clone, execute
\* does not return, and the other workers carry the run on: it stops only
\* when every other spec was dispatched and has produced its outcome.
C14_StuckWorkerDoesNotBlock ==
  (amount >= 2 /\ \E w \in workers : Stuck(w)) =>
    /\ ret = "none"
    /\ ~(ENABLED StuckNext) =>
         \A k \in 1..Len(manifest) : ~Hangs(k) => outcome[k] # "none"

\* ------------------------------------------------- the tree specification

\* The tree alone: any sequence of at most MaxAdds add calls, then consume.
\* The temp path of the i-th call is i.
TreeInit ==
  /\ \E ps \in SeqsUpTo(TreePaths, MaxAdds) :
       inputs = [i \in 1..Len(ps) |-> <<ps[i], i>>]
  /\ added = <<>>
  /\ out = <<>>
  /\ layer_tree = <<>>
  /\ order = <<>>
  /\ amount = 0
  /\ manifest = <<>>
  /\ pc = "tree"
  /\ ret = "none"
  /\ workers = {}
  /\ handles = FALSE
  /\ visited = {}
  /\ wpc = [w \in 1..MaxWorkers |-> "unspawned"]
  /\ wjob = [w \in 1..MaxWorkers |-> 0]
  /\ jobq = [w \in 1..MaxWorkers |-> <<>>]
  /\ events = <<>>
  /\ eventsOpen = FALSE
  /\ eventSender = FALSE
  /\ results = <<>>
  /\ resultsOpen = FALSE
  /\ resultSender = FALSE
  /\ jobs = <<>>
  /\ finished = <<>>
  /\ failed = FALSE
  /\ placed = <<>>
  /\ dispatched = <<>>
  /\ outcome = <<>>
  /\ received = <<>>
  /\ terminated = {}
  /\ joined = {}

\* tree.add(path, temp) for the next input.
TreeAdd ==
  /\ pc = "tree"
  /\ inputs # <<>>
  /\ layer_tree' = Add(layer_tree, Head(inputs)[1], Head(inputs)[2])
  /\ added' = Append(added, Head(inputs))
  /\ inputs' = Tail(inputs)
  /\ UNCHANGED <<out, order>>
  /\ UNCHANGED poolVars

\* tree.consume() once every input was added.
TreeConsume ==
  /\ pc = "tree"
  /\ inputs = <<>>
  /\ out' = Consume(layer_tree)
  /\ layer_tree' = <<>>
  /\ pc' = "consumed"
  /\ UNCHANGED <<inputs, added, order>>
  /\ UNCHANGED <<amount, manifest, ret, workers, handles, visited, wpc, wjob,
                 jobq, events, eventsOpen, eventSender, results, resultsOpen,
                 resultSender, jobs, finished, failed, placed, dispatched,
                 outcome, received, terminated, joined>>

TreeNext == TreeAdd \/ TreeConsume

TreeSpec == TreeInit /\ [][TreeNext]_vars

\* The paths added are pairwise distinct.
DistinctAdded == \A i, j \in 1..Len(added) : added[i][1] = added[j][1] => i = j

\* C2: for pairwise distinct paths added in any order, consume emits path A
\* before path B whenever B is a strict filesystem descendant of A.
C2_ConsumeParentFirst ==
  (pc = "consumed" /\ DistinctAdded) =>
    \A i, j \in 1..Len(out) :
      StrictDescendant(out[j][1], out[i][1]) => i < j

\* C2 witness: the chain of four was added deepest first and consumed.
C2_Witness ==
  /\ pc = "consumed"
  /\ Len(added) = 4
  /\ [i \in 1..4 |-> added[i][1]] = <<<<1, 1, 1, 1>>, <<1, 1, 1>>, <<1, 1>>, <<1>>>>
  /\ [i \in 1..4 |-> out[i][1]] = <<<<1>>, <<1, 1>>, <<1, 1, 1>>, <<1, 1, 1, 1>>>>


\* C15: whatever paths were added, in whatever order, consume emits a
\* permutation of the added (final path, staged path) pairs: as many pairs as
\* were added, each added pair once, and nothing else.
C15_ConsumePermutation ==
  pc = "consumed" =>
    /\ Len(out) = Len(added)
    /\ \A i \in 1..Len(added) :
         Cardinality({j \in 1..Len(out) : out[j] = added[i]}) = 1
    /\ \A j \in 1..Len(out) : \E i \in 1..Len(added) : out[j] = added[i]

\* C15 witness: a path added twice, a child added before its parent and an
\* unrelated path were consumed in another order than they were added.
C15_Witness ==
  /\ pc = "consumed"
  /\ [i \in 1..Len(added) |-> added[i][1]] = <<<<1, 1>>, <<1>>, <<1>>, <<2>>>>
  /\ out # added


RECURSIVE Locs(_)
\* Every node of the forest whose top-level nodes are `children`.
Locs(children) ==
  UNION {{children[i]} \cup Locs(children[i].children) : i \in 1..Len(children)}

\* C16 (as claimed): after any sequence of adds, every node in the subtree of
\* a node has a final path that is a strict filesystem descendant of that
\* node's final path, never equal to it.
C16_SubtreeStrictlyBelow ==
  \A n \in Locs(layer_tree) :
    \A d \in Locs(n.children) : StrictDescendant(d.root, n.root)


\* The sibling lists of the forest: the roots, and the children of each node.
SiblingLists == {layer_tree} \cup {n.children : n \in Locs(layer_tree)}

\* C17 (as claimed): after any sequence of adds, no two siblings (two roots,
\* or two children of one node) have final paths one of which is a
\* filesystem ancestor of the other: a path that arrived before its parent
\* was moved under the parent when the parent was added.
C17_NoRelatedSiblings ==
  \A s \in SiblingLists :
    \A i, j \in 1..Len(s) : ~StrictDescendant(s[j].root, s[i].root)

\* C17 (amended): after any sequence of adds, no sibling's final path is a
\* filesystem ancestor of, or equal to, the final path of a sibling that was
\* added after it. (A sibling added later may be an ancestor of an earlier
\* one: a path that arrived before its parent is not moved under it.)
C17_NoEarlierAncestorSibling ==
  \A s \in SiblingLists :
    \A i, j \in 1..Len(s) : i < j => s[i].root \notin Ancestors(s[j].root)

\* C17 witness: a/a/a was added before a, and a/a/a/a and a/a after both:
\* the late parent is a root beside its descendant's subtree.
C17_Witness ==
  /\ pc = "tree"
  /\ Len(layer_tree) = 2
  /\ layer_tree[1].root = <<1, 1, 1>>
  /\ layer_tree[2].root = <<1>>
  /\ Len(layer_tree[1].children) = 1
  /\ layer_tree[1].children[1].root = <<1, 1, 1, 1>>
  /\ Len(layer_tree[2].children) = 1
  /\ layer_tree[2].children[1].root = <<1, 1>>

\* The nodes that were in the forest before the pair (p, t) was added and
\* whose final path is among p.ancestors() (p itself included, as in
\* Path::ancestors).
AncestorNodes(p, t) ==
  {n \in Locs(layer_tree) : n.temp # t /\ n.root \in Ancestors(p)}

\* The nodes of the forest that have the node of staged path t as a child.
ParentsOf(t) ==
  {n \in Locs(layer_tree) : \E i \in 1..Len(n.children) : n.children[i].temp = t}

C24_LateParentIsNewRoot ==
  [][(/\ pc = "tree"
      /\ added' # added
      /\ \E d \in Locs(layer_tree) : StrictDescendant(d.root, Last(added')[1])
      /\ AncestorNodes(Last(added')[1], Last(added')[2]) = {})
     => layer_tree' = Append(layer_tree, LocRoot(Last(added')[1], Last(added')[2]))]_vars

\* C24 witness: a/a and, under it, a/a/a were added before a: a is the
\* second root, childless, and a/a still holds a/a/a.
C24_Witness ==
  /\ pc = "tree"
  /\ [i \in 1..Len(added) |-> added[i][1]] = <<<<1, 1>>, <<1, 1, 1>>, <<1>>>>
  /\ layer_tree = <<[root |-> <<1, 1>>, temp |-> 1,
                     children |-> <<LocRoot(<<1, 1, 1>>, 2)>>],
                    LocRoot(<<1>>, 3)>>

RECURSIVE ParentFirst(_)
\* The pairs of the sibling list `locs` and of the subtrees below it: the
\* siblings from the last one added to the first, each followed at once by
\* the pairs of its own subtree, in the same manner.
ParentFirst(locs) ==
  IF locs = <<>> THEN <<>>
  ELSE (<<<<Last(locs).root, Last(locs).temp>>>> \o ParentFirst(Last(locs).children))
         \o ParentFirst(Front(locs))

\* The final paths of a sequence of pairs.
Paths(pairs) == [i \in 1..Len(pairs) |-> pairs[i][1]]

\* C25: consume emits a parent first and then its children in reverse order
\* of insertion, each child followed at once by its whole subtree before the
\* next sibling; nest, nest/foo, nest/other yields nest, nest/other,
\* nest/foo, and nest, nest/foo, nest/foo/bar, nest/foo/baz yields nest,
\* nest/foo, nest/foo/baz, nest/foo/bar.
C25_ConsumeOrder ==
  [][(pc = "tree" /\ pc' = "consumed") =>
       /\ out' = ParentFirst(layer_tree)
       /\ Paths(added) = <<<<1, 1, 1>>, <<1, 1, 1, 1>>, <<1, 1, 1, 2>>>> =>
            Paths(out') = <<<<1, 1, 1>>, <<1, 1, 1, 2>>, <<1, 1, 1, 1>>>>
       /\ Paths(added) = <<<<1, 1>>, <<1, 1, 1>>, <<1, 1, 1, 1>>, <<1, 1, 1, 2>>>> =>
            Paths(out') = <<<<1, 1>>, <<1, 1, 1>>, <<1, 1, 1, 2>>, <<1, 1, 1, 1>>>>]_vars

\* C25 witness: lib.rs's grandchild-sibling case was consumed: nest,
\* nest/foo, nest/foo/bar, nest/foo/baz gave nest, nest/foo, nest/foo/baz,
\* nest/foo/bar.
C25_Witness ==
  /\ pc = "consumed"
  /\ Paths(added) = <<<<1, 1>>, <<1, 1, 1>>, <<1, 1, 1, 1>>, <<1, 1, 1, 2>>>>
  /\ Paths(out) = <<<<1, 1>>, <<1, 1, 1>>, <<1, 1, 1, 2>>, <<1, 1, 1, 1>>>>

\* No added path is among the ancestors of another added path (itself
\* included).
UnrelatedAdded ==
  \A i, j \in 1..Len(added) : i # j => added[i][1] \notin Ancestors(added[j][1])

\* C26: when no two of the added paths are related as ancestor and
\* descendant, every one of them is a root and consume emits them in reverse
\* order of insertion: /test/deep/nest then /test/deep/other yields
\* /test/deep/other, /test/deep/nest.
C26_RootsReversed ==
  (pc = "consumed" /\ UnrelatedAdded) => out = Reverse(added)

\* C26 witness: two unrelated paths with a common parent, a/a/a/a then
\* a/a/a/b, came out as a/a/a/b, a/a/a/a.
C26_Witness ==
  /\ pc = "consumed"
  /\ Paths(added) = <<<<1, 1, 1, 1>>, <<1, 1, 1, 2>>>>
  /\ Paths(out) = <<<<1, 1, 1, 2>>, <<1, 1, 1, 1>>>>

\* C27: recognize called on a node with a path that is neither equal to nor
\* below the node's path, nor the path of any node of its subtree, returns
\* Some(path) and leaves the node and its whole subtree as they were: at
\* every add this holds of every node of the forest, and the node is in the
\* forest unchanged after the add.
C27_RecognizeUnrelated ==
  [][(pc = "tree" /\ added' # added) =>
       \A n \in Locs(layer_tree) :
         (\A m \in {n} \cup Locs(n.children) : m.root \notin Ancestors(Last(added')[1]))
           => /\ Recognize(n, Last(added')[1], Last(added')[2])
                   = [none |-> FALSE, loc |-> n]
              /\ n \in Locs(layer_tree')]_vars

\* C27 witness: the root a/a, holding a/a/a, was offered the unrelated path
\* b and is unchanged; b is a root beside it (the case of lib.rs 461-477).
C27_Witness ==
  /\ pc = "tree"
  /\ Paths(added) = <<<<1, 1>>, <<1, 1, 1>>, <<2>>>>
  /\ layer_tree[1] = [root |-> <<1, 1>>, temp |-> 1,
                      children |-> <<LocRoot(<<1, 1, 1>>, 2)>>]
  /\ layer_tree[2] = LocRoot(<<2>>, 3)

RECURSIVE Entries(_, _)
\* One entry for each node of the sibling list `children` and of the
\* subtrees below it: the node's paths, its parent (the parent's staged path;
\* `parent` for the list itself) and its position among its siblings.
Entries(children, parent) ==
  UNION {{[root |-> children[i].root, temp |-> children[i].temp,
           parent |-> parent, pos |-> i]}
           \cup Entries(children[i].children, children[i].temp)
         : i \in 1..Len(children)}

\* The entries of the whole forest `locations`; a root's parent is 0, which
\* is no staged path.
Forest(locations) == Entries(locations, 0)

\* C28: each add adds exactly one node and changes nothing else: every node
\* keeps its path, its staged path, its parent and its position among its
\* siblings, and the new node, childless, is the last child of its parent
\* or the last root.
C28_AddOnlyAppends ==
  [][(pc = "tree" /\ added' # added) =>
       LET p == Last(added')[1]
           t == Last(added')[2]
           new == Forest(layer_tree') \ Forest(layer_tree)
       IN /\ Forest(layer_tree) \subseteq Forest(layer_tree')
          /\ Cardinality(new) = 1
          /\ \A e \in new :
               /\ e.root = p
               /\ e.temp = t
               /\ e.pos = 1 + Cardinality({f \in Forest(layer_tree) : f.parent = e.parent})
               /\ e.parent # 0 => \E f \in Forest(layer_tree) : f.temp = e.parent
          /\ \A f \in Forest(layer_tree') : f.parent # t]_vars

\* C28 witness: three unrelated paths are roots in insertion order and a
\* fourth path is the child of the second (lib.rs 479-505).
C28_Witness ==
  /\ pc = "tree"
  /\ Paths(added) = <<<<1, 1, 1, 1>>, <<2>>, <<1, 1, 1, 2>>, <<2, 1>>>>
  /\ Forest(layer_tree) =
       {[root |-> <<1, 1, 1, 1>>, temp |-> 1, parent |-> 0, pos |-> 1],
        [root |-> <<2>>, temp |-> 2, parent |-> 0, pos |-> 2],
        [root |-> <<1, 1, 1, 2>>, temp |-> 3, parent |-> 0, pos |-> 3],
        [root |-> <<2, 1>>, temp |-> 4, parent |-> 2, pos |-> 1]}

\* ------------------------------------- claims about the pool and its tree

\* The dispatch loop has ended by its own test and execute is past it.
LoopExited ==
  pc \in {"drain", "terminate", "consume", "place", "join"}
    \/ ret \in {"ok", "err_failed", "err_place"}

\* C31: on a pool of N >= 1 workers, when the dispatch loop has ended by
\* `finished.len() == worker_count`, all M specs were dispatched and each has
\* its Ok outcome; at the start of the drain the outcome channel holds
\* exactly those M outcomes; an Idle on the event channel always has its
\* worker's outcomes enqueued before it; `failed` is never set, and the
\* drained tree holds exactly M entries.
C31_LoopExitMeansAllOk ==
  /\ \A i \in 1..Len(events) :
       events[i].event = "Idle" => Outstanding(events[i].id) = {}
  /\ (amount >= 1 /\ LoopExited) =>
       /\ \A k \in 1..Len(manifest) : Dispatched(k) /\ outcome[k] = "ok"
       /\ ~failed
       /\ jobs = <<>>
       /\ pc = "drain" =>
            /\ Len(received) + Len(results) = Len(manifest)
            /\ \A i \in 1..Len(results) : results[i].ok
            /\ Cardinality(Forest(layer_tree)) = Len(received)
       /\ pc \in {"terminate", "consume"} =>
            /\ Len(received) = Len(manifest)
            /\ Cardinality(Forest(layer_tree)) = Len(manifest)

\* C31 witness: two workers, two sources: the loop has ended, the drain is
\* over and the tree holds both entries.
C31_Witness ==
  /\ amount = 2
  /\ Len(manifest) = 2
  /\ pc = "terminate"
  /\ ~failed
  /\ Cardinality(Forest(layer_tree)) = 2

\* The workers in the coordinator's `finished` list.
Finished == {finished[i] : i \in 1..Len(finished)}

\* C32: `finished` never holds a worker twice and never more than the N
\* workers; a worker in it has no Cloner job queued, running or unanswered
\* and no Idle on the event channel; so finished.len() == worker_count
\* exactly when every worker is finished.
C32_FinishedOnce ==
  /\ \A i, j \in 1..Len(finished) : finished[i] = finished[j] => i = j
  /\ Finished \subseteq workers
  /\ Len(finished) <= amount
  /\ \A w \in Finished :
       /\ Outstanding(w) = {}
       /\ wpc[w] \notin {"run", "sent"}
       /\ \A i \in 1..Len(jobq[w]) : jobq[w][i].job # "Cloner"
       /\ \A i \in 1..Len(events) : events[i] # [event |-> "Idle", id |-> w]
       /\ jobs = <<>>
  /\ Len(finished) = Cardinality(workers) <=> Finished = workers

\* C32 witness: of two workers one was marked finished in the initial pass
\* and the other after its job's Idle: `finished` holds both, once each.
C32_Witness ==
  /\ amount = 2
  /\ Len(manifest) = 1
  /\ pc = "loop"
  /\ Len(finished) = 2
  /\ Finished = workers
  /\ finished[2] = dispatched[1][2]

\* Worker w's thread ended after its own job failed.
DiedFailing(w) ==
  /\ wpc[w] = "dead"
  /\ \E i \in 1..Len(dispatched) :
       dispatched[i][2] = w /\ outcome[dispatched[i][1]] = "err"

\* C33: when execute has returned a failure that is not a placement
\* failure, the pool had workers, every one of them had ended its thread
\* after failing its own job, no sender of the event channel was left and
\* nothing was placed; so while a worker is alive execute has not returned a
\* failure caused by a failed job.
C33_FailureOnlyWhenAllDead ==
  /\ ret \in {"err_events", "err_failed"} =>
       /\ amount >= 1
       /\ \A w \in workers : DiedFailing(w)
       /\ ~EventSendersAlive
       /\ placed = <<>>
       /\ order = <<>>
  /\ (AnyFailed /\ \E w \in workers : wpc[w] # "dead") => ret = "none"

\* C33 witness: two workers, two sources, both clones failed: both threads
\* are gone and execute returned the receive error.
C33_Witness ==
  /\ amount = 2
  /\ ret = "err_events"
  /\ outcome = <<"err", "err">>
  /\ \A w \in workers : DiedFailing(w)

\* execute has reached its Terminate loop.
TerminatePhase ==
  pc \in {"terminate", "consume", "place", "join"} \/ ret \in {"ok", "err_place"}

\* C34: from the Terminate loop on, a worker not yet sent Terminate is idle
\* with an empty job queue; a worker sent it has that one Terminate as the
\* only message of its queue until it takes it, and has then ended its
\* thread; no worker runs a clone, and no outcome and no Idle is sent any
\* more.
C34_TerminateEndsIdleWorkers ==
  TerminatePhase =>
    /\ terminated \subseteq workers
    /\ \A w \in workers :
         /\ wpc[w] \in {"idle", "recv", "dead"}
         /\ w \notin terminated => (jobq[w] = <<>> /\ wpc[w] # "dead")
         /\ w \in terminated =>
              \/ jobq[w] = <<Terminate>> /\ wpc[w] # "dead"
              \/ jobq[w] = <<>> /\ wpc[w] = "dead"
    /\ results = <<>>
    /\ events = <<>>
    /\ Len(received) = Len(dispatched)

\* C34 witness: both workers were sent Terminate; one has taken it and is
\* gone, the other has it waiting in its queue.
C34_Witness ==
  /\ amount = 2
  /\ Len(manifest) = 2
  /\ pc = "consume"
  /\ terminated = workers
  /\ \E w, v \in workers :
       /\ wpc[w] = "dead"
       /\ jobq[v] = <<Terminate>>

\* C35: create(0, ..) returns a pool without workers (unless the
\* destination cannot be created), and execute on it, whatever the manifest
\* holds, spawns no thread, dispatches no job, receives no outcome, places
\* nothing, and goes on to return Ok.
C35_NoWorkersReturnsOk ==
  /\ [](amount = 0 =>
          /\ workers = {}
          /\ \A w \in 1..MaxWorkers : wpc[w] = "unspawned"
          /\ dispatched = <<>>
          /\ received = <<>>
          /\ \A k \in 1..Len(manifest) : outcome[k] = "none"
          /\ order = <<>>
          /\ placed = <<>>
          /\ ret \in {"none", "ok", "err_create"})
  /\ (amount = 0 /\ pc = "spawn") ~> (ret = "ok")

\* C35 witness: execute on a pool of no workers and a manifest of two specs
\* returned Ok with nothing dispatched and nothing placed.
C35_Witness ==
  /\ amount = 0
  /\ Len(manifest) = 2
  /\ ret = "ok"
  /\ dispatched = <<>>
  /\ placed = <<>>
====
